---- MODULE Spec2Model ----
(***************************************************************************)
(* Model of batman's trap-enabling protocol (src/src/lib.rs, signal()).    *)
(* Each thread runs signal() as a sequence of atomic steps: the            *)
(* compare_exchange on the thread-local INITIALIZED, the compare_exchange  *)
(* on the process-wide HANDLING, the handler installation and the          *)
(* hardware unmask.  Threads are spawned by living threads and inherit     *)
(* the FPU control word of their parent.                                   *)
(***************************************************************************)
EXTENDS Integers, FiniteSets, Sequences, TLC

\* ---- bounds ----
MaxThreads == 3
MaxCalls == 2

Threads == 1..MaxThreads

\* ---- x87 style exception mask bits of the FPU control word ----
IM == 1
DM == 2
ZM == 4
OM == 8
UM == 16
PM == 32
CWValues == 0..63
MaskBits == {IM, DM, ZM, OM, UM, PM}

Bit(cw, b) == (cw \div b) % 2
ClearBit(cw, b) == cw - Bit(cw, b) * b
SetBit(cw, b) == cw + (1 - Bit(cw, b)) * b

\* traps for divide-by-zero and invalid-operation are both disabled
Masked(cw) == Bit(cw, ZM) = 1 /\ Bit(cw, IM) = 1
\* traps for divide-by-zero and invalid-operation are both enabled
Unmasked(cw) == Bit(cw, ZM) = 0 /\ Bit(cw, IM) = 0

VARIABLES
    alive,            \* threads that exist
    pc,               \* position of each thread
    calls,            \* number of signal() calls each thread has started
    INITIALIZED,      \* thread_local AtomicBool, one per thread
    HANDLING,         \* static AtomicBool
    handler,          \* process-wide disposition of the FP fault
    cw,               \* FPU control word of each thread
    debug_assertions, \* build configuration
    unmaskCount,      \* history: enable_fp_exceptions runs per thread
    installCount,     \* history: handler installations
    casWinners,       \* history: threads whose CAS on HANDLING succeeded
    installers,       \* history: threads that ran the installation
    bornCW,           \* history: control word each thread started with
    faultLog,         \* history: fault path events per thread
    remaskCall,       \* history: calls started when the host last re-masked
    terminated        \* "no", "custom" (handler exit) or "default" (OS)

vars == <<alive, pc, calls, INITIALIZED, HANDLING, handler, cw,
          debug_assertions, unmaskCount, installCount, casWinners,
          installers, bornCW, faultLog, remaskCall, terminated>>

hist == <<unmaskCount, installCount, casWinners, installers, bornCW>>

\* ---- pure steps of the code ----

\* AtomicBool::compare_exchange(false, true, ..).is_ok()
cas_ok_always(cur) == TRUE
cas_ok(cur) == cur = FALSE

\* the value the flag holds after compare_exchange(false, true, ..)
cas_new_lost(cur) == cur
cas_new_toggle(cur) == ~cur
cas_new(cur) == IF cur = FALSE THEN TRUE ELSE cur

\* where signal() continues after the CAS on INITIALIZED
after_INITIALIZED_return(ok) == "idle"
after_INITIALIZED_again(ok) == IF ok THEN "cas_handling" ELSE "unmask"
after_INITIALIZED(ok) == IF ok THEN "cas_handling" ELSE "idle"

\* where signal() continues after the CAS on HANDLING
after_HANDLING_skip(ok) == IF ok THEN "install" ELSE "idle"
after_HANDLING_help(ok) == "install"
after_HANDLING(ok) == IF ok THEN "install" ELSE "unmask"

\* where signal() continues after the handler installation
after_install_return == "idle"
after_install == "unmask"

\* what a thread waits for between the installation branch and its unmask
unmask_ready_wait == handler = "custom"
unmask_ready == TRUE

\* the threads whose control word a thread's register write reaches
fpu_scope_shared(t) == Threads
fpu_scope(t) == {t}

\* x86_64::enable_fp_exceptions: read-modify-write of the control word
enable_fp_exceptions_wide(w) == ClearBit(ClearBit(ClearBit(w, ZM), IM), OM)
enable_fp_exceptions(w) == ClearBit(ClearBit(w, ZM), IM)

\* other unsafe code of the host disables the two exceptions again
disable_fp_exceptions(w) == SetBit(SetBit(w, ZM), IM)

\* thread spawn: the child starts with the parent's control word
inherit(w) == w

\* ---- initial states ----
InitCommon ==
    /\ alive = {1}
    /\ pc = [t \in Threads |-> "idle"]
    /\ calls = [t \in Threads |-> 0]
    /\ INITIALIZED = [t \in Threads |-> FALSE]
    /\ HANDLING = FALSE
    /\ handler = "default"
    /\ debug_assertions \in BOOLEAN
    /\ unmaskCount = [t \in Threads |-> 0]
    /\ installCount = 0
    /\ casWinners = {}
    /\ installers = {}
    /\ faultLog = [t \in Threads |-> <<>>]
    /\ remaskCall = [t \in Threads |-> -1]
    /\ terminated = "no"

\* the main thread starts with the two traps disabled, other bits free
Init ==
    /\ InitCommon
    /\ \E w \in {v \in CWValues : Masked(v)} :
          /\ cw = [t \in Threads |-> w]
          /\ bornCW = [t \in Threads |-> w]

\* the host application may have configured any control word before
InitHost ==
    /\ InitCommon
    /\ \E w \in CWValues :
          /\ cw = [t \in Threads |-> w]
          /\ bornCW = [t \in Threads |-> w]

\* the default control word of a fresh process: every exception masked
InitDefault ==
    /\ InitCommon
    /\ cw = [t \in Threads |-> ZM + IM + DM + OM + UM + PM]
    /\ bornCW = cw

\* the fault path is explored in the debug build
InitFault == InitDefault /\ debug_assertions

\* ---- signal() ----
signal_call(t) ==
    /\ terminated = "no"
    /\ t \in alive
    /\ pc[t] = "idle"
    /\ calls[t] < MaxCalls
    /\ pc' = [pc EXCEPT ![t] = "cas_init"]
    /\ calls' = [calls EXCEPT ![t] = @ + 1]
    /\ UNCHANGED <<alive, INITIALIZED, HANDLING, handler, cw,
                   debug_assertions, hist, faultLog, terminated, remaskCall>>

signal_cas_INITIALIZED(t) ==
    /\ terminated = "no"
    /\ pc[t] = "cas_init"
    /\ LET ok == cas_ok(INITIALIZED[t]) IN
        /\ INITIALIZED' = [INITIALIZED EXCEPT ![t] = cas_new(@)]
        /\ pc' = [pc EXCEPT ![t] = after_INITIALIZED(ok)]
    /\ UNCHANGED <<alive, calls, HANDLING, handler, cw, debug_assertions,
                   hist, faultLog, terminated, remaskCall>>

signal_cas_HANDLING(t) ==
    /\ terminated = "no"
    /\ pc[t] = "cas_handling"
    /\ LET ok == cas_ok(HANDLING) IN
        /\ HANDLING' = cas_new(HANDLING)
        /\ casWinners' = IF ok THEN casWinners \cup {t} ELSE casWinners
        /\ pc' = [pc EXCEPT ![t] = after_HANDLING(ok)]
    /\ UNCHANGED <<alive, calls, INITIALIZED, handler, cw, debug_assertions,
                   unmaskCount, installCount, installers, bornCW, faultLog,
                   terminated, remaskCall>>

signal_install(t) ==
    /\ terminated = "no"
    /\ pc[t] = "install"
    /\ handler' = "custom"
    /\ installCount' = installCount + 1
    /\ installers' = installers \cup {t}
    /\ pc' = [pc EXCEPT ![t] = after_install]
    /\ UNCHANGED <<alive, calls, INITIALIZED, HANDLING, cw, debug_assertions,
                   unmaskCount, casWinners, bornCW, faultLog, terminated,
                   remaskCall>>

signal_unmask(t) ==
    /\ terminated = "no"
    /\ pc[t] = "unmask"
    /\ unmask_ready
    /\ cw' = [u \in Threads |-> IF u \in fpu_scope(t)
                                 THEN enable_fp_exceptions(cw[u])
                                 ELSE cw[u]]
    /\ unmaskCount' = [unmaskCount EXCEPT ![t] = @ + 1]
    /\ pc' = [pc EXCEPT ![t] = "idle"]
    /\ UNCHANGED <<alive, calls, INITIALIZED, HANDLING, handler,
                   debug_assertions, installCount, casWinners, installers,
                   bornCW, faultLog, terminated, remaskCall>>

\* a living thread, outside signal(), starts the next thread
spawn(p) ==
    /\ terminated = "no"
    /\ p \in alive
    /\ pc[p] = "idle"
    /\ Cardinality(alive) < MaxThreads
    /\ LET c == Cardinality(alive) + 1 IN
        /\ alive' = alive \cup {c}
        /\ cw' = [cw EXCEPT ![c] = inherit(cw[p])]
        /\ bornCW' = [bornCW EXCEPT ![c] = inherit(cw[p])]
    /\ UNCHANGED <<pc, calls, INITIALIZED, HANDLING, handler,
                   debug_assertions, unmaskCount, installCount, casWinners,
                   installers, faultLog, terminated, remaskCall>>

\* code outside the crate, running on thread t between two calls of
\* signal(), masks divide-by-zero and invalid-operation again
host_remask(t) ==
    /\ terminated = "no"
    /\ t \in alive
    /\ pc[t] = "idle"
    /\ ~Masked(cw[t])
    /\ cw' = [cw EXCEPT ![t] = disable_fp_exceptions(@)]
    /\ remaskCall' = [remaskCall EXCEPT ![t] = calls[t]]
    /\ UNCHANGED <<alive, pc, calls, INITIALIZED, HANDLING, handler,
                   debug_assertions, hist, faultLog, terminated>>

ThreadStep(t) ==
    \/ signal_cas_INITIALIZED(t)
    \/ signal_cas_HANDLING(t)
    \/ signal_install(t)
    \/ signal_unmask(t)

Next ==
    \/ \E t \in Threads : signal_call(t)
    \/ \E t \in Threads : signal_cas_INITIALIZED(t)
    \/ \E t \in Threads : signal_cas_HANDLING(t)
    \/ \E t \in Threads : signal_install(t)
    \/ \E t \in Threads : signal_unmask(t)
    \/ \E p \in Threads : spawn(p)

Spec == Init /\ [][Next]_vars

SpecHost == InitHost /\ [][Next]_vars

\* every thread that is inside signal() keeps being scheduled
FairSpec == InitDefault /\ [][Next]_vars
                        /\ \A t \in Threads : WF_vars(ThreadStep(t))

\* no scheduling assumption at all: any thread may stall anywhere, for ever
StallSpec == InitDefault /\ [][Next]_vars

NextRemask ==
    \/ Next
    \/ \E t \in Threads : host_remask(t)

\* the enabling protocol together with a host that re-masks
SpecRemask == InitDefault /\ [][NextRemask]_vars

TypeOK ==
    /\ alive \subseteq Threads
    /\ pc \in [Threads -> {"idle", "cas_init", "cas_handling", "install",
                           "unmask", "fault_delivered", "backtrace_captured",
                           "diagnostic_emitted", "exited"}]
    /\ cw \in [Threads -> CWValues]
    /\ handler \in {"default", "custom"}
    /\ terminated \in {"no", "custom", "default"}

\* ---- fault path ----

\* the order of the fault handler's events
FaultOrder == <<"deliver", "backtrace", "diagnostic", "terminate">>
FaultStages == {"fault_delivered", "backtrace_captured",
                "diagnostic_emitted", "exited"}

\* how the fault handler ends
handler_outcome_resume == "resume"
handler_outcome == "terminate"

\* a thread outside signal() evaluates x / 0.0 or 0.0 / 0.0 with that
\* exception class unmasked, and the installed handler is entered
trap_custom(t) ==
    /\ terminated = "no"
    /\ t \in alive
    /\ pc[t] = "idle"
    /\ \E k \in {ZM, IM} : Bit(cw[t], k) = 0
    /\ handler = "custom"
    /\ pc' = [pc EXCEPT ![t] = "fault_delivered"]
    /\ faultLog' = [faultLog EXCEPT ![t] = Append(@, "deliver")]
    /\ UNCHANGED <<alive, calls, INITIALIZED, HANDLING, handler, cw,
                   debug_assertions, hist, terminated, remaskCall>>

\* the same with no handler installed: the OS default ends the process
trap_default(t) ==
    /\ terminated = "no"
    /\ t \in alive
    /\ pc[t] = "idle"
    /\ \E k \in {ZM, IM} : Bit(cw[t], k) = 0
    /\ handler = "default"
    /\ terminated' = "default"
    /\ UNCHANGED <<alive, pc, calls, INITIALIZED, HANDLING, handler, cw,
                   debug_assertions, hist, faultLog, remaskCall>>

handler_backtrace(t) ==
    /\ terminated = "no"
    /\ pc[t] = "fault_delivered"
    /\ pc' = [pc EXCEPT ![t] = "backtrace_captured"]
    /\ faultLog' = [faultLog EXCEPT ![t] = Append(@, "backtrace")]
    /\ UNCHANGED <<alive, calls, INITIALIZED, HANDLING, handler, cw,
                   debug_assertions, hist, terminated, remaskCall>>

handler_report(t) ==
    /\ terminated = "no"
    /\ pc[t] = "backtrace_captured"
    /\ pc' = [pc EXCEPT ![t] = "diagnostic_emitted"]
    /\ faultLog' = [faultLog EXCEPT ![t] = Append(@, "diagnostic")]
    /\ UNCHANGED <<alive, calls, INITIALIZED, HANDLING, handler, cw,
                   debug_assertions, hist, terminated, remaskCall>>

handler_exit(t) ==
    /\ terminated = "no"
    /\ pc[t] = "diagnostic_emitted"
    /\ IF handler_outcome = "terminate"
       THEN /\ terminated' = "custom"
            /\ pc' = [pc EXCEPT ![t] = "exited"]
            /\ faultLog' = [faultLog EXCEPT ![t] = Append(@, "terminate")]
       ELSE /\ terminated' = terminated
            /\ pc' = [pc EXCEPT ![t] = "idle"]
            /\ faultLog' = [faultLog EXCEPT ![t] = <<>>]
    /\ UNCHANGED <<alive, calls, INITIALIZED, HANDLING, handler, cw,
                   debug_assertions, hist, remaskCall>>

HandlerStep(t) ==
    \/ handler_backtrace(t)
    \/ handler_report(t)
    \/ handler_exit(t)

NextFault ==
    \/ Next
    \/ \E t \in Threads : trap_custom(t)
    \/ \E t \in Threads : trap_default(t)
    \/ \E t \in Threads : handler_backtrace(t)
    \/ \E t \in Threads : handler_report(t)
    \/ \E t \in Threads : handler_exit(t)

\* the handler runs to its end on the faulting thread
SpecFault == InitFault /\ [][NextFault]_vars
                  /\ \A t \in Threads : WF_vars(HandlerStep(t))

IsPrefix(a, b) ==
    /\ Len(a) <= Len(b)
    /\ \A i \in 1..Len(a) : a[i] = b[i]

\* ---- properties of the enabling protocol ----

\* a step of thread t's signal() call (each action moves exactly one pc)
StepOf(t) == pc'[t] # pc[t]

\* C1: N calls of signal() on a thread perform exactly one hardware unmask
\* on it and at most one handler installation in the process; every call
\* after the thread's first changes neither INITIALIZED, HANDLING, the
\* installed handler nor the thread's control word.
C1_Idempotent ==
    /\ [](\A t \in Threads :
            /\ unmaskCount[t] <= 1
            /\ installCount <= 1
            /\ (calls[t] >= 1 /\ pc[t] = "idle") => unmaskCount[t] = 1)
    /\ [][\A t \in Threads :
            (calls'[t] >= 2 /\ StepOf(t)) =>
                /\ INITIALIZED'[t] = INITIALIZED[t]
                /\ HANDLING' = HANDLING
                /\ handler' = handler
                /\ cw'[t] = cw[t]]_vars

C1_Witness ==
    \E t \in alive : \E u \in alive :
        /\ t # u
        /\ calls[t] >= 2 /\ pc[t] = "idle" /\ unmaskCount[t] = 1
        /\ calls[u] >= 2 /\ pc[u] = "idle" /\ unmaskCount[u] = 1
        /\ installCount = 1

\* C2: no thread's traps are unmasked by signal() while the process fault
\* handler is not yet installed.
C2_HandlerBeforeUnmask ==
    \A t \in Threads : unmaskCount[t] >= 1 => handler = "custom"

\* C3: the installation runs at most once in the process: the CAS on
\* HANDLING succeeds at most once and only its winner ever installs.
C3_InstallOnce ==
    /\ installCount <= 1
    /\ Cardinality(casWinners) <= 1
    /\ installers \subseteq casWinners
    /\ {t \in Threads : pc[t] = "install"} \subseteq casWinners
    /\ (HANDLING <=> casWinners # {})

C3_Witness ==
    /\ installCount = 1
    /\ Cardinality(installers) = 1
    /\ \E t \in alive : t \notin casWinners /\ unmaskCount[t] = 1
    /\ \E t \in alive : t \notin casWinners /\ pc[t] = "cas_handling"

\* C4 (as claimed): every thread that never called signal() and whose
\* INITIALIZED is false has both traps masked, also a thread spawned by a
\* thread that had enabled its traps.
C4_NoTrapsWithoutSignal ==
    \A b \in alive : (calls[b] = 0 /\ ~INITIALIZED[b]) => Masked(cw[b])

\* C4 (amended): a step of signal() on one thread never changes the control
\* word of another thread, and a thread that never called signal() holds
\* exactly the control word it was started with (the parent's at the spawn):
\* its traps are masked if and only if they were masked when it started.
C4_ThreadLocalEffect ==
    /\ [][\A b \in alive : ~StepOf(b) => cw'[b] = cw[b]]_vars
    /\ [](\A b \in alive : calls[b] = 0 =>
             /\ ~INITIALIZED[b]
             /\ cw[b] = bornCW[b])

C4_Witness ==
    \E a \in alive : \E b \in alive : \E c \in alive :
        /\ unmaskCount[a] = 1 /\ Unmasked(cw[a])
        /\ calls[b] = 0 /\ Masked(cw[b])
        /\ calls[c] = 0 /\ Unmasked(cw[c]) /\ ~INITIALIZED[c]

\* C5: with debug assertions disabled signal() is a no-op: no handler is
\* installed and no control word is modified.
C5_ReleaseNoOp ==
    ~debug_assertions =>
        /\ handler = "default"
        /\ installCount = 0
        /\ \A t \in alive : unmaskCount[t] = 0 /\ cw[t] = bornCW[t]

\* C6: once a trap fires with the custom handler installed the events are
\* fault delivery, backtrace capture, diagnostic emission and process
\* termination in this order; the process eventually terminates and the
\* faulting thread never takes a step of its own program again.
C6_FaultPath ==
    /\ [](\A t \in Threads : IsPrefix(faultLog[t], FaultOrder))
    /\ [][\A t \in Threads :
            pc[t] \in FaultStages =>
                /\ pc'[t] \in FaultStages
                /\ calls'[t] = calls[t]
                /\ Len(faultLog'[t]) >= Len(faultLog[t])]_vars
    /\ \A t \in Threads :
            (pc[t] = "fault_delivered") ~> (terminated = "custom")

C6_Witness ==
    \E t \in alive : \E u \in alive :
        /\ terminated = "custom"
        /\ faultLog[t] = FaultOrder
        /\ pc[t] = "exited"
        /\ pc[u] = "backtrace_captured"

\* C7: the unmask of signal() clears exactly the divide-by-zero and the
\* invalid-operation mask bits of the calling thread's control word and
\* leaves every other bit as it was, for every initial control word.
C7_ExactlyTwoBits ==
    [][\A t \in Threads :
          (pc[t] = "unmask" /\ StepOf(t)) =>
              /\ Bit(cw'[t], ZM) = 0
              /\ Bit(cw'[t], IM) = 0
              /\ \A b \in MaskBits \ {ZM, IM} :
                    Bit(cw'[t], b) = Bit(cw[t], b)]_vars

C7_Witness ==
    \E t \in alive :
        /\ unmaskCount[t] = 1
        /\ Bit(bornCW[t], ZM) = 1 /\ Bit(bornCW[t], IM) = 0
        /\ Bit(bornCW[t], OM) = 1 /\ Bit(bornCW[t], PM) = 0
        /\ cw[t] = bornCW[t] - ZM

\* C8 (as claimed): whenever INITIALIZED is true on a thread, signal() has
\* already unmasked that thread's two traps.
C8_FlagImpliesUnmasked ==
    \A t \in Threads :
        INITIALIZED[t] => (unmaskCount[t] >= 1 /\ Unmasked(cw[t]))

\* C8 (amended): whenever INITIALIZED is true on a thread that is not
\* between its CAS on INITIALIZED and the end of that same signal() call,
\* signal() has already unmasked that thread's two traps.
C8_FlagImpliesUnmaskedOutsideCall ==
    \A t \in Threads :
        (INITIALIZED[t] /\ pc[t] \notin {"cas_handling", "install", "unmask"})
            => (unmaskCount[t] >= 1 /\ Unmasked(cw[t]))

C8_Witness ==
    \E t \in alive : \E u \in alive :
        /\ INITIALIZED[t] /\ pc[t] = "idle" /\ Unmasked(cw[t])
        /\ t \notin casWinners
        /\ INITIALIZED[u] /\ pc[u] = "install" /\ Masked(cw[u])

\* C9: INITIALIZED, HANDLING and the installed handler never go back, and
\* no step sets a divide-by-zero or invalid-operation mask bit that was
\* cleared.
C9_Monotonic ==
    [][/\ \A t \in Threads : INITIALIZED[t] => INITIALIZED'[t]
       /\ HANDLING => HANDLING'
       /\ handler = "custom" => handler' = "custom"
       /\ \A t \in alive : \A b \in {ZM, IM} :
             Bit(cw[t], b) = 0 => Bit(cw'[t], b) = 0]_vars

C9_Witness ==
    /\ HANDLING
    /\ handler = "custom"
    /\ \E t \in alive :
          /\ INITIALIZED[t] /\ Unmasked(cw[t])
          /\ calls[t] >= 2 /\ pc[t] = "cas_init"

\* C10: under fair scheduling every thread that has called signal()
\* eventually has run the hardware unmask and has its two traps unmasked,
\* whether or not it was the thread that installed the handler.
C10_EveryCallerUnmasks ==
    \A t \in Threads :
        (calls[t] >= 1) ~> (unmaskCount[t] >= 1 /\ Unmasked(cw[t]))

C10_Witness ==
    \E t \in alive :
        /\ t \notin casWinners
        /\ casWinners # {}
        /\ handler = "default"
        /\ unmaskCount[t] = 1 /\ Unmasked(cw[t])

\* ---- properties settled with the later claims ----

InCall == {"cas_init", "cas_handling", "install", "unmask"}

\* the number of own steps a call still needs at most
Rank(p) ==
    CASE p = "cas_init" -> 4
      [] p = "cas_handling" -> 3
      [] p = "install" -> 2
      [] p = "unmask" -> 1
      [] OTHER -> 0

\* C11: a call of signal() never waits for another thread: whatever the
\* other threads do or fail to do, the next step of a thread inside
\* signal() is enabled, each of its steps brings it nearer to the return
\* (at most four steps after the entry), and a thread that keeps being
\* scheduled returns even if no other thread is.
C11_LockFree ==
    /\ [](\A t \in Threads : pc[t] \in InCall => ENABLED ThreadStep(t))
    /\ [][\A t \in Threads :
            (pc[t] \in InCall /\ StepOf(t)) => Rank(pc'[t]) < Rank(pc[t])]_vars
    /\ \A t \in Threads :
            WF_vars(ThreadStep(t)) => ((pc[t] \in InCall) ~> (pc[t] = "idle"))

C11_Witness ==
    \E t \in alive : \E u \in alive :
        /\ pc[u] = "install"
        /\ calls[t] >= 1 /\ pc[t] = "idle" /\ unmaskCount[t] = 1
        /\ calls[u] = 1

\* no signal() call is in progress on any thread
Quiescent == \A t \in Threads : pc[t] = "idle"

\* C12: in every quiescent state, if some thread's INITIALIZED is true
\* then HANDLING is true and the handler is installed, and the threads
\* whose INITIALIZED is true are exactly the threads on which signal() has
\* run the hardware unmask.
C12_QuiescentConsistent ==
    Quiescent =>
        /\ (\E t \in Threads : INITIALIZED[t]) =>
               (HANDLING /\ handler = "custom" /\ installCount = 1)
        /\ {t \in Threads : INITIALIZED[t]}
               = {t \in Threads : unmaskCount[t] >= 1}

C12_Witness ==
    /\ Quiescent
    /\ Cardinality({t \in alive : INITIALIZED[t]}) = 2
    /\ \E t \in alive : ~INITIALIZED[t] /\ calls[t] = 0
    /\ handler = "custom"

\* C13: under fair scheduling the handler is eventually installed once
\* some thread has started a call; a thread that lost the CAS on HANDLING
\* never reaches the installation, and as long as the winner has not taken
\* its installation step the handler stays the default whatever the other
\* threads do, while their unmask steps stay enabled.
C13_OnlyWinnerInstalls ==
    /\ (\E t \in Threads : calls[t] >= 1) ~> (handler = "custom")
    /\ [](\A t \in Threads : pc[t] = "install" =>
              (t \in casWinners /\ handler = "default"))
    /\ [][\A w \in Threads :
            (pc[w] = "install" /\ ~StepOf(w)) => handler' = "default"]_vars
    /\ [](\A w \in Threads : \A t \in Threads :
              (pc[w] = "install" /\ pc[t] = "unmask") =>
                  ENABLED signal_unmask(t))

C13_Witness ==
    \E w \in alive : \E t \in alive : \E u \in alive :
        /\ pc[w] = "install" /\ handler = "default"
        /\ t \notin casWinners /\ unmaskCount[t] = 1 /\ Unmasked(cw[t])
        /\ u \notin casWinners /\ pc[u] = "unmask"

\* thread t's flag is set, t is not inside its first call, and its two
\* traps are masked: the host has re-masked them after signal() enabled them
Remasked(t) ==
    /\ INITIALIZED[t]
    /\ pc[t] \in {"idle", "cas_init"}
    /\ Masked(cw[t])

\* C14: once code outside the crate has re-masked the traps of a thread
\* whose INITIALIZED is true, no step of any later signal() call unmasks
\* them: the thread never reaches the unmask again, its control word and
\* its unmask count stay as they are, and its traps stay disabled.
C14_NoReEnable ==
    /\ [](\A t \in alive : Remasked(t) =>
              (remaskCall[t] >= 1 /\ unmaskCount[t] = 1))
    /\ [][\A t \in alive :
            Remasked(t) =>
                /\ Remasked(t)'
                /\ cw'[t] = cw[t]
                /\ unmaskCount'[t] = unmaskCount[t]]_vars

C14_Witness ==
    \E t \in alive :
        /\ INITIALIZED[t] /\ pc[t] = "idle" /\ Masked(cw[t])
        /\ remaskCall[t] >= 1
        /\ calls[t] > remaskCall[t]
        /\ unmaskCount[t] = 1
        /\ handler = "custom"
====
